---- MODULE Spec2Model ----
(***************************************************************************)
(* A model of the hybrid extraction-and-scoring pipeline of                *)
(* AIProjectEvaluator:                                                     *)
(*   src/ai_data_extraction.py      ChatGPTClient, extract_metadata_and_   *)
(*                                  scores, extract_criteria               *)
(*   src/manual_data_extraction.py  the regex / rule-of-thumb fallbacks    *)
(*                                                                         *)
(* Python values are modelled as tagged records so that values of          *)
(* different Python types can be told apart: a number is                   *)
(* [t |-> "int" | "float", x2 |-> twice its value] (so 3.5 is x2 = 7).     *)
(***************************************************************************)
EXTENDS Integers, Sequences, FiniteSets, TLC

VARIABLES
    criteria,   \* extract_metadata_and_scores: the criteria argument
    response,   \* what chatgpt_client.query produced for this submission
    result,     \* the local `result` dict of extract_metadata_and_scores
    epc,        \* "call" before the call, then "returned" or "raised"
    ctext,      \* extract_criteria: the text of the rubric document
    cresponse,  \* what chatgpt_client.query produced for the rubric
    cresult,    \* the structure extract_criteria returns
    cpc,        \* "call" before the call, then "returned" or "raised"
    env,        \* ChatGPTClient: who calls query in this run, and with what
    calls,      \* the call of query of each caller: its position and locals
    sem,        \* self.semaphore: the free slots
    cacheData,  \* self.cache: its entries, in the order of insertion
    cacheLru,   \* self.cache: its keys, least recently used first
    cacheBytes, \* self.current_cache_size_bytes
    cacheFile,  \* the file cache.json
    adj,        \* adjust_scores_with_rules: its arguments and what it returned
    batch,      \* process_files: its inputs, its position and what it has emitted
    upload      \* process_files: the uploaded files and the checks made of them

extractVars == <<criteria, response, result, epc>>
criteriaVars == <<ctext, cresponse, cresult, cpc>>
queryVars == <<env, calls, sem, cacheData, cacheLru, cacheBytes, cacheFile>>
driverVars == <<adj, batch, upload>>
otherVars == <<extractVars, criteriaVars, driverVars>>
vars == <<extractVars, criteriaVars, queryVars, driverVars>>

----------------------------------------------------------------------------
(* Bounds of the model. *)

\* largest max_score of a criterion
MaxMaxScore == 4
\* how far below 0 an AI-proposed score may lie
MaxUnder == 2
\* how far above the largest max_score an AI-proposed score may lie
MaxOver == 6
\* longest "recommendations" list of an AI response
MaxRecLen == 3
\* most rubric items and declared totals in a rubric text
MaxTokens == 3
\* largest N of a rubric item "name (0-N points)"
MaxItemScore == 2
\* largest total a rubric text or an AI response declares
MaxDeclared == 3
\* largest `retries` argument of query
MaxRetries == 3
\* self.max_cache_size_bytes, scaled down from 10 MB to the sizes of the model
MaxCacheBytes == 3
\* LRUCache(maxsize=1000), scaled down
MaxEntries == 2
\* longest criteria list handed to adjust_scores_with_rules
MaxAdjCriteria == 3
\* largest score and max_score handed to adjust_scores_with_rules
MaxAdjScore == 3
\* how often adjust_scores_with_rules is applied in a row
MaxApplications == 2
\* most work files of a batch (the code allows 30)
MaxFiles == 3
\* most entries of a file cache.json that load_cache reads
MaxFileEntries == 3
\* most work files of an upload whose checks are modelled file by file
MaxUploads == 2

(* Program constants. *)

\* total_words <= 60
WordLimit == 60
\* len(name) > 5
MinNameLen == 5
\* asyncio.Semaphore(2)
GateSlots == 2
\* steps_per_file = 10
StepsPerFile == 10
\* min(..., 99)
PercentCap == 99
\* 50 * 1024 * 1024
SizeLimit == 52428800
\* len(work_files) > 30
WorkFileLimit == 30

----------------------------------------------------------------------------
(* Python numbers and the built-ins the code applies to them. *)

PyInt(n) == [t |-> "int", x2 |-> 2 * n]
PyFloat(x2) == [t |-> "float", x2 |-> x2]

\* max(a, b) and min(a, b): Python returns the first argument on a tie
PyMax(a, b) == IF b.x2 > a.x2 THEN b ELSE a
PyMin(a, b) == IF b.x2 < a.x2 THEN b ELSE a

----------------------------------------------------------------------------
(* The values an AI response can carry.                                    *)

\* the names of the criteria of a batch, by position (unique within a batch)
CritNames == <<"A", "B">>

AllNames == {CritNames[i] : i \in 1..Len(CritNames)}

\* the four metadata fields of a result
MetaKeys == {"author", "grade", "school", "title"}

\* a criteria list: one criterion per entry of ms, the max_score values
MkCriteria(ms) == [i \in 1..Len(ms) |-> [name |-> CritNames[i], max_score |-> ms[i]]]

MaxScores == 0..MaxMaxScore

CriteriaLists ==
    {MkCriteria(ms) : ms \in UNION {[1..n -> MaxScores] : n \in 1..Len(CritNames)}}

Names(crit) == {crit[i].name : i \in 1..Len(crit)}

\* scores[crit_name] of an AI response:
\*   "missing"  the name is not in scores       "notdict"  not a mapping
\*   "nofield"  a mapping without "score"       "int", "float"  a number
\*   "str", "null"  a "score" that is no number
Entry(e, x2) == [e |-> e, x2 |-> x2]

AIIntScores == (0 - MaxUnder)..(MaxMaxScore + MaxOver)

AIFloatX2 == {x \in (0 - 1)..(2 * MaxMaxScore + 1) : x % 2 = 1}

EntryVals ==
    {Entry(e, 0) : e \in {"missing", "notdict", "nofield", "str", "null"}}
    \cup {Entry("int", 2 * s) : s \in AIIntScores}
    \cup {Entry("float", x) : x \in AIFloatX2}

\* the entries of the small cross product of fields
SmallEntryVals ==
    {Entry("missing", 0), Entry("str", 0), Entry("int", 0),
     Entry("int", 2), Entry("int", 2 * (MaxMaxScore + MaxOver))}

NoScores == [n \in AllNames |-> Entry("missing", 0)]

\* one entry of a "recommendations" list: whether it is a string, the number
\* of words rec.split() finds in it, and whether it holds one of . ! ?
\* (a string without words is empty after strip() and holds no terminator)
Rec(text, str, words, term) == [text |-> text, str |-> str, words |-> words, term |-> term]

AIRecs ==
    {Rec("ai", FALSE, 0, FALSE), Rec("ai", TRUE, 0, FALSE), Rec("ai", TRUE, 1, FALSE),
     Rec("ai", TRUE, 1, TRUE), Rec("ai", TRUE, WordLimit \div 2, TRUE),
     Rec("ai", TRUE, WordLimit \div 2 + 1, TRUE)}

\* "metadata" of an AI response: the keys the mapping holds
MetaVals ==
    {[k |-> "absent", keys |-> {}], [k |-> "notdict", keys |-> {}],
     [k |-> "dict", keys |-> MetaKeys], [k |-> "dict", keys |-> {"author"}],
     [k |-> "dict", keys |-> {}]}

\* parsed_result["scores"] as a mapping with entry f[n] for criterion n
ScoresDict(crit, f) ==
    [k |-> "dict", d |-> [n \in AllNames |->
                            IF n \in Names(crit) THEN f[n] ELSE Entry("missing", 0)]]

\* What chatgpt_client.query produced and what the code finds in it:
\*   kind  "none"           query returned None
\*         "raise"          query raised
\*         "nochoices"      no 'choices' key      "emptychoices"  choices == []
\*         "nomessage"      choices[0] lacks message/content (KeyError)
\*         "badchoice"      choices[0] is not subscriptable (TypeError)
\*         "content_notstr" content is not a string (null)
\*         "content"        content is a string
\*   fenced  the content is wrapped in ```json ... ```
\*   json    what the content (without fences) is as JSON: "invalid", or the
\*           type of the value: "scalar" (number, true, false, null), "list",
\*           "listkey" (a list holding the string "metadata"), "string",
\*           "object"
Resp(kind, fenced, json, md, sc, recs) ==
    [kind |-> kind, fenced |-> fenced, json |-> json,
     metadata |-> md, scores |-> sc, recommendations |-> recs]

NoMeta == [k |-> "absent", keys |-> {}]
NoScoresVal == [k |-> "absent", d |-> NoScores]
NoRecs == [k |-> "absent", list |-> <<>>]

\* the kinds of response without a content string
NoContentKinds ==
    {"none", "raise", "nochoices", "emptychoices", "nomessage", "badchoice",
     "content_notstr"}

\* what a content string that is no JSON object can be
NonObjectJson == {"invalid", "scalar", "list", "listkey", "string"}

\* the criteria list of the cross product of fields
CrossCriteria == MkCriteria(<<MaxMaxScore, 2>>)

----------------------------------------------------------------------------
(* src/manual_data_extraction.py: the fallbacks of a submission.           *)

\* FallbackScore without its floor of 1
FallbackScoreNoFloor(max_score) == PyInt(max_score - 1)

\* score = max(1, max_score - 1)
FallbackScore(max_score) == PyMax(PyInt(1), PyInt(max_score - 1))

\* scores[c['name']] = score, for c in criteria in order (a later criterion
\* of the same name overwrites an earlier one)
evaluate_work_fallback(crit) ==
    [n \in Names(crit) |->
        LET last == CHOOSE i \in 1..Len(crit) :
                        /\ crit[i].name = n
                        /\ \A j \in 1..Len(crit) : crit[j].name = n => j <= i
        IN  FallbackScore(crit[last].max_score)]

\* the two fixed strings: nine words each, each with a full stop
generate_recommendations_fallback ==
    <<Rec("fallback1", TRUE, 9, TRUE), Rec("fallback2", TRUE, 9, TRUE)>>

----------------------------------------------------------------------------
(* src/ai_data_extraction.py: extract_metadata_and_scores.                 *)

FallbackMetadata == [k \in MetaKeys |-> "Unknown"]

\* result = {"metadata": ..., "scores": ..., "recommendations": ...}
FallbackResult(crit) ==
    [metadata |-> FallbackMetadata,
     scores |-> evaluate_work_fallback(crit),
     recommendations |-> generate_recommendations_fallback]

\* re.sub(r'^```json\s*|\s*```$', '', content, flags=re.MULTILINE).strip()
StripFence(resp) == [resp EXCEPT !.fenced = FALSE]

\* json.loads(content) raises JSONDecodeError on what is not JSON: a content
\* still wrapped in a fence, or a body that is not JSON
JsonLoadsFails(resp) == resp.fenced \/ resp.json = "invalid"

\* score_entry.get("score", 0)
ScoreOf(entry) == IF entry.e = "nofield" THEN PyInt(0) ELSE [t |-> entry.e, x2 |-> entry.x2]

\* not isinstance(score, int) or score < 0 or score > max_score
InvalidScore(score, max_score) ==
    score.t # "int" \/ score.x2 < 0 \/ score.x2 > 2 * max_score

\* max(0, score) compares score with an int: a TypeError unless it is a number
ClampRaises(score) == score.t \notin {"int", "float"}

\* Clamp without its upper bound
ClampNoMin(score, max_score) == PyMax(PyInt(0), score)

\* score = min(max(0, score), max_score)
Clamp(score, max_score) == PyMin(PyMax(PyInt(0), score), PyInt(max_score))

\* Stored with `score >= 0` for `score > 0`
StoredZeroToo(score, current) == IF score.x2 >= 0 THEN score ELSE current

\* result["scores"][crit_name] = score if score > 0 else result["scores"][crit_name]
Stored(score, current) == IF score.x2 > 0 THEN score ELSE current

\* the loop `for crit in criteria` over scores = parsed_result["scores"], from
\* criterion i on; acc is result["scores"] so far
RECURSIVE OverlayScores(_, _, _, _)
OverlayScores(crit, scores, i, acc) ==
    IF i > Len(crit) THEN [raised |-> FALSE, scores |-> acc]
    ELSE LET crit_name == crit[i].name
             max_score == crit[i].max_score
             entry == scores[crit_name]
         IN  IF entry.e \in {"missing", "notdict"}
             THEN OverlayScores(crit, scores, i + 1, acc)
             ELSE LET score == ScoreOf(entry)
                  IN  IF InvalidScore(score, max_score) /\ ClampRaises(score)
                      THEN [raised |-> TRUE, scores |-> acc]
                      ELSE LET s == IF InvalidScore(score, max_score)
                                    THEN Clamp(score, max_score) ELSE score
                           IN  OverlayScores(crit, scores, i + 1,
                                   [acc EXCEPT ![crit_name] = Stored(s, acc[crit_name])])

\* total_words = sum(len(rec.split()) for rec in recommendations)
RECURSIVE TotalWords(_)
TotalWords(recs) == IF recs = <<>> THEN 0 ELSE Head(recs).words + TotalWords(Tail(recs))

\* isinstance(rec, str) and rec.strip()
NonEmptyString(rec) == rec.str /\ rec.words > 0

\* ValidSentence with `>= 1` for `>= 2`: true of every string
ValidSentenceAny(rec) == rec.str

\* len(re.split(r'[.!?]', rec)) >= 2
ValidSentence(rec) == rec.term

\* the test on parsed_result["recommendations"]
AcceptRecommendations(recs) ==
    /\ recs.k = "list"
    /\ Len(recs.list) = 2
    /\ \A i \in 1..Len(recs.list) : NonEmptyString(recs.list[i])
    /\ TotalWords(recs.list) <= WordLimit
    /\ \A i \in 1..Len(recs.list) : ValidSentence(recs.list[i])

Returned(res) == [status |-> "returned", exc |-> "none", result |-> res]
Raised(exc, res) == [status |-> "raised", exc |-> exc, result |-> res]

\* the body of `try:` once json.loads has returned parsed_result
Overlay(crit, resp, fallback) ==
    IF resp.json = "scalar" \/ resp.json = "listkey"
    THEN Raised("TypeError", fallback)
    ELSE IF resp.json # "object"
    THEN Returned(fallback)
    ELSE LET md == IF resp.metadata.k = "dict"
                   THEN [k \in resp.metadata.keys |-> "AI"]
                   ELSE fallback.metadata
             sc == IF resp.scores.k = "dict"
                   THEN OverlayScores(crit, resp.scores.d, 1, fallback.scores)
                   ELSE [raised |-> FALSE, scores |-> fallback.scores]
             rc == IF AcceptRecommendations(resp.recommendations)
                   THEN resp.recommendations.list
                   ELSE fallback.recommendations
         IN  IF sc.raised
             THEN Raised("TypeError",
                         [metadata |-> md, scores |-> sc.scores,
                          recommendations |-> fallback.recommendations])
             ELSE Returned([metadata |-> md, scores |-> sc.scores, recommendations |-> rc])

\* extract_metadata_and_scores(text, filename, criteria, chatgpt_client), given
\* what chatgpt_client.query produced
extract_metadata_and_scores(crit, resp) ==
    LET fallback == FallbackResult(crit)
    IN  CASE resp.kind = "raise" -> Raised("JSONDecodeError", fallback)
          [] resp.kind \in {"none", "nochoices", "emptychoices"} -> Returned(fallback)
          [] resp.kind = "nomessage" -> Returned(fallback)
          [] resp.kind \in {"badchoice", "content_notstr"} -> Raised("TypeError", fallback)
          [] OTHER ->
                IF JsonLoadsFails(StripFence(resp))
                THEN Returned(fallback)
                ELSE Overlay(crit, StripFence(resp), fallback)

----------------------------------------------------------------------------
(* The specification of one call of extract_metadata_and_scores.           *)

\* The inputs of extract_metadata_and_scores: every criteria list with every
\* response shape and with every scores mapping, those that hold names
\* outside the criteria list included; every metadata value on its
\* own; and, for one criteria list, the cross product of metadata, scores and
\* recommendations (every recommendations list, fewer score entries).
ExtractInput(c, r) ==
    /\ criteria = c
    /\ response = r
    /\ result = FallbackResult(c)
    /\ epc = "call"

\* no ChatGPTClient is modelled
QueryOff ==
    /\ env = "none"
    /\ calls = <<>>
    /\ sem = 0
    /\ cacheData = <<>>
    /\ cacheLru = <<>>
    /\ cacheBytes = 0
    /\ cacheFile = "none"

\* extract_criteria is not running
CriteriaOff ==
    /\ ctext = <<>>
    /\ cresponse = "none"
    /\ cresult = <<>>
    /\ cpc = "off"

\* adjust_scores_with_rules is not running
AdjustOff == adj = [pc |-> "off"]

\* process_files is not running
BatchOff == batch = [pc |-> "off"]

\* the checks of the uploaded files are not running
UploadOff == upload = [pc |-> "off"]

\* nothing of main.py is running
DriverOff == AdjustOff /\ BatchOff /\ UploadOff

InitExtract ==
    /\ CriteriaOff
    /\ QueryOff
    /\ DriverOff
    /\ \/ \E c \in CriteriaLists, kind \in NoContentKinds :
             ExtractInput(c, Resp(kind, FALSE, "invalid", NoMeta, NoScoresVal, NoRecs))
       \/ \E c \in CriteriaLists, fenced \in BOOLEAN, json \in NonObjectJson :
             ExtractInput(c, Resp("content", fenced, json, NoMeta, NoScoresVal, NoRecs))
       \/ \E c \in CriteriaLists, fenced \in BOOLEAN :
             \E f \in [Names(c) -> EntryVals] :
                 ExtractInput(c, Resp("content", fenced, "object", NoMeta,
                                      ScoresDict(c, f), NoRecs))
       \/ \E c \in CriteriaLists, f \in [AllNames -> SmallEntryVals] :
             ExtractInput(c, Resp("content", FALSE, "object", NoMeta,
                                  [k |-> "dict", d |-> f], NoRecs))
       \/ \E md \in MetaVals, sk \in {"absent", "notdict"}, rk \in {"absent", "notlist"} :
             ExtractInput(CrossCriteria,
                          Resp("content", FALSE, "object", md,
                               [k |-> sk, d |-> NoScores], [k |-> rk, list |-> <<>>]))
       \/ \E md \in {m \in MetaVals : m.k = "absent" \/ m.keys # {}} :
             \E f \in [Names(CrossCriteria) -> SmallEntryVals] :
                 \E n \in 0..MaxRecLen :
                     \E l \in [1..n -> AIRecs] :
                         ExtractInput(CrossCriteria,
                                      Resp("content", FALSE, "object", md,
                                           ScoresDict(CrossCriteria, f),
                                           [k |-> "list", list |-> l]))

CallExtract ==
    /\ epc = "call"
    /\ LET out == extract_metadata_and_scores(criteria, response)
       IN  /\ epc' = out.status
           /\ result' = out.result
    /\ UNCHANGED <<criteria, response, criteriaVars, queryVars, driverVars>>

NextExtract == CallExtract

SpecExtract == InitExtract /\ [][NextExtract]_vars

----------------------------------------------------------------------------
(* src/manual_data_extraction.py: extract_criteria_fallback.               *)
(*                                                                         *)
(* A rubric text is modelled by what the regular expressions find in it,   *)
(* in text order: the items "name ... 0-N points" and the phrases that     *)
(* declare a total.  An item records the pattern families that match it:   *)
(*   {1}     "1. name 0-N points"        numbered or bulleted, no brackets *)
(*   {1, 2}  "1. name (0-N points)"      numbered or bulleted, brackets    *)
(*   {2}     "name (0-N points)"         brackets only                     *)
(*   {3}     "| name | 0-N points |"     a row of a pipe table             *)
(* Names are ASCII stand-ins for the Russian names of the source.  The     *)
(* lead of an item is what stands between the item before it and its name: *)
(* "" for white space or a character no name can hold, "," for the comma   *)
(* of a comma-separated list, which the character class of a name admits.  *)

Item(name, max, fams) ==
    [type |-> "item", lead |-> "", name |-> name, n |-> max, fams |-> fams]

\* an item "name (0-N points)" that follows ", "
CommaItem(name, max) ==
    [type |-> "item", lead |-> ",", name |-> name, n |-> max, fams |-> {2}]

\* "Maximal'nyj ball - N" or "(maks. ball - N"
Total(n) == [type |-> "total", lead |-> "", name |-> "", n |-> n, fams |-> {}]

\* match.group(1).strip(): pattern2 is anchored by nothing, so its group
\* starts at the comma; strip() removes white space only
CapturedName(tok, fam) ==
    IF fam = 2 /\ tok.lead = "," THEN ", " \o tok.name ELSE tok.name

\* len(name) of the names of the model
NameLength(name) ==
    CASE name = "crit_alpha" -> 10
      [] name = "crit_beta" -> 9
      [] name = "short" -> 5
      [] name = "itogo_sum" -> 9
      [] name = ", crit_alpha" -> 12
      [] name = ", crit_beta" -> 11
      [] name = ", short" -> 7
      [] name = ", itogo_sum" -> 11
      [] OTHER -> 20

\* any(keyword in name.lower() for keyword in ['itogo', 'maksimal'nyj', 'kommentarij'])
HasExclusionKeyword(name) == name \in {"itogo_sum", ", itogo_sum"}

\* the three pattern families, in the order of `patterns`
PatternFamilies == <<1, 2, 3>>

ItemFamilies == {{1}, {1, 2}, {2}, {3}}

Tokens ==
    {Item(name, max, fams) :
        name \in {"crit_alpha", "crit_beta"}, max \in 1..MaxItemScore, fams \in ItemFamilies}
    \cup {Item("short", 1, {2}), Item("itogo_sum", MaxItemScore, {1, 2}), Item("crit_alpha", 0, {2})}
    \cup {CommaItem("crit_beta", MaxItemScore), CommaItem("short", 1),
          CommaItem("itogo_sum", 1)}
    \cup {Total(n) : n \in 0..MaxDeclared}

\* the criteria the matches of one pattern append, from token i on:
\* re.finditer(pattern, text) in text order, the test on the name
RECURSIVE MatchesOf(_, _, _)
MatchesOf(text, fam, i) ==
    IF i > Len(text) THEN <<>>
    ELSE LET tok == text[i]
             name == CapturedName(tok, fam)
             hit == /\ tok.type = "item"
                    /\ fam \in tok.fams
                    /\ NameLength(name) > MinNameLen
                    /\ ~HasExclusionKeyword(name)
         IN  (IF hit THEN <<[name |-> name, max_score |-> tok.n]>> ELSE <<>>)
             \o MatchesOf(text, fam, i + 1)

\* `for pattern in patterns`: every pattern is applied, from family f on
RECURSIVE MatchedCriteria(_, _)
MatchedCriteria(text, f) ==
    IF f > Len(PatternFamilies) THEN <<>>
    ELSE MatchesOf(text, PatternFamilies[f], 1) \o MatchedCriteria(text, f + 1)

\* the hard-coded rubric of seven criteria
DefaultRubric ==
    <<[name |-> "aktualnost_novizna", max_score |-> 4],
      [name |-> "issledovatelskaya_sostavlyayushchaya", max_score |-> 5],
      [name |-> "stepen_samostoyatelnosti", max_score |-> 3],
      [name |-> "slozhnost_proekta", max_score |-> 7],
      [name |-> "prakticheskoe_primenenie", max_score |-> 5],
      [name |-> "avtorskij_vklad", max_score |-> 5],
      [name |-> "gramotnost_oformlenie", max_score |-> 3]>>

\* sum(c["max_score"] for c in criteria)
RECURSIVE SumMaxScore(_)
SumMaxScore(crit) ==
    IF crit = <<>> THEN 0 ELSE Head(crit).max_score + SumMaxScore(Tail(crit))

\* re.search for the declared total: the first such phrase, 0 - 1 without one
RECURSIVE DeclaredTotal(_, _)
DeclaredTotal(text, i) ==
    IF i > Len(text) THEN 0 - 1
    ELSE IF text[i].type = "total" THEN text[i].n ELSE DeclaredTotal(text, i + 1)

CriteriaData(has_criteria, crit, has_total, total) ==
    [has_criteria |-> has_criteria, criteria |-> crit,
     has_total |-> has_total, max_total_score |-> total]

\* the total that extract_criteria_fallback returns
FallbackTotal(computed, declared) ==
    IF declared >= 0 /\ declared # computed THEN declared ELSE computed

extract_criteria_fallback(text) ==
    LET found == MatchedCriteria(text, 1)
        crit == IF found = <<>> THEN DefaultRubric ELSE found
    IN  CriteriaData(TRUE, crit, TRUE, FallbackTotal(SumMaxScore(crit), DeclaredTotal(text, 1)))

----------------------------------------------------------------------------
(* src/ai_data_extraction.py: extract_criteria.                            *)

\* one entry of the "criteria" list of an AI response; has_max is whether it
\* holds 'max_score'
AICriterion(name, has_max, max) == [name |-> name, has_max |-> has_max, max_score |-> max]

AICriteria ==
    {AICriterion(CritNames[1], TRUE, m) : m \in 0..MaxItemScore}
    \cup {AICriterion(CritNames[2], TRUE, MaxItemScore), AICriterion(CritNames[2], FALSE, 0)}

\* what chatgpt_client.query produced for the rubric; kind, fenced and json
\* as for a submission; criteria and declared are the two fields of the object
CriteriaResp(kind, fenced, json, crit, declared) ==
    [kind |-> kind, fenced |-> fenced, json |-> json, criteria |-> crit, declared |-> declared]

\* the total after the reconciliation of the AI path
ReconciledTotal(declared, has_declared, total_score) ==
    IF (IF has_declared THEN declared ELSE 0) # total_score THEN total_score ELSE declared

\* the body of `try:` once json.loads has returned criteria_data
ReconcileAI(resp, text) ==
    IF resp.json # "object"
    THEN Raised("AttributeError", extract_criteria_fallback(text))
    ELSE LET list == IF resp.criteria.k = "list" THEN resp.criteria.list ELSE <<>>
             has_declared == resp.declared.k = "int"
         IN  IF \E i \in 1..Len(list) : ~list[i].has_max
             THEN Returned(extract_criteria_fallback(text))
             ELSE LET total_score == SumMaxScore(list)
                      changed == (IF has_declared THEN resp.declared.n ELSE 0) # total_score
                  IN  Returned(CriteriaData(
                          resp.criteria.k = "list",
                          [i \in 1..Len(list) |->
                              [name |-> list[i].name, max_score |-> list[i].max_score]],
                          has_declared \/ changed,
                          ReconciledTotal(resp.declared.n, has_declared, total_score)))

\* extract_criteria(file, chatgpt_client), given the text of the file and what
\* chatgpt_client.query produced; an empty text is the text without tokens
\* and blank
extract_criteria(text, resp) ==
    CASE text.blank -> Raised("HTTPException", extract_criteria_fallback(text.tokens))
      [] resp.kind = "raise" -> Raised("JSONDecodeError", extract_criteria_fallback(text.tokens))
      [] resp.kind \in {"none", "nochoices", "emptychoices", "nomessage"} ->
            Returned(extract_criteria_fallback(text.tokens))
      [] resp.kind \in {"badchoice", "content_notstr"} ->
            Raised("TypeError", extract_criteria_fallback(text.tokens))
      [] OTHER ->
            IF JsonLoadsFails(StripFence(resp))
            THEN Returned(extract_criteria_fallback(text.tokens))
            ELSE ReconcileAI(StripFence(resp), text.tokens)

----------------------------------------------------------------------------
(* The specification of one call of extract_criteria.                      *)

\* extract_metadata_and_scores is not running
ExtractOff ==
    /\ criteria = <<>>
    /\ response = "none"
    /\ result = <<>>
    /\ epc = "off"

NoAICriteria == [k |-> "absent", list |-> <<>>]
NoDeclared == [k |-> "absent", n |-> 0]

CriteriaInput(text, r) ==
    /\ ctext = text
    /\ cresponse = r
    /\ cresult = CriteriaData(FALSE, <<>>, FALSE, 0)
    /\ cpc = "call"

\* The inputs of extract_criteria: every rubric text of up to MaxTokens items
\* and declared totals with every response that leads to the fallback, and
\* one text with every response.
InitCriteria ==
    /\ ExtractOff
    /\ QueryOff
    /\ DriverOff
    /\ \/ \E n \in 0..MaxTokens :
             \E toks \in [1..n -> Tokens] :
                 \E kind \in {"none", "nochoices"} :
                     CriteriaInput([blank |-> FALSE, tokens |-> toks],
                                   CriteriaResp(kind, FALSE, "invalid", NoAICriteria, NoDeclared))
       \/ \E toks \in {<<>>, <<Item("crit_alpha", 1, {2}), Total(MaxDeclared)>>} :
             \E kind \in NoContentKinds, blank \in BOOLEAN :
                 (blank => toks = <<>>) /\
                 CriteriaInput([blank |-> blank, tokens |-> toks],
                               CriteriaResp(kind, FALSE, "invalid", NoAICriteria, NoDeclared))
       \/ \E toks \in {<<>>, <<Item("crit_alpha", 1, {2}), Total(MaxDeclared)>>} :
             \E fenced \in BOOLEAN, json \in NonObjectJson \cup {"object"} :
                 \E n \in 0..2 :
                     \E list \in [1..n -> AICriteria] :
                         \E ck \in {"absent", "list"}, declared \in (0 - 1)..MaxDeclared :
                             /\ (json # "object" \/ ck = "absent") => (list = <<>>)
                             /\ json # "object" => (declared = 0 - 1 /\ ck = "absent")
                             /\ CriteriaInput(
                                   [blank |-> FALSE, tokens |-> toks],
                                   CriteriaResp("content", fenced, json,
                                       [k |-> ck, list |-> list],
                                       IF declared < 0 THEN NoDeclared
                                       ELSE [k |-> "int", n |-> declared]))

CallCriteria ==
    /\ cpc = "call"
    /\ LET out == extract_criteria(ctext, cresponse)
       IN  /\ cpc' = out.status
           /\ cresult' = out.result
    /\ UNCHANGED <<ctext, cresponse, extractVars, queryVars, driverVars>>

NextCriteria == CallCriteria

SpecCriteria == InitCriteria /\ [][NextCriteria]_vars

----------------------------------------------------------------------------
(* src/ai_data_extraction.py: ChatGPTClient.                               *)
(*                                                                         *)
(* A text is modelled by its first 2000 characters (prefix) and what       *)
(* follows them (rest); a response of the API by the prompt it answers and *)
(* its body, whose serialized size is BodySize.  All calls run on one      *)
(* event loop: an action is what a call does between two awaits.           *)

Callers == {1, 2, 3}

Text(prefix, rest) == [prefix |-> prefix, rest |-> rest]
NoText == Text("", "")

ApiResponse(prompt, body) == [prompt |-> prompt, body |-> body]
NoValue == ApiResponse("", "")

\* a key of the whole text
CacheKeyWholeText(text) == text.prefix \o text.rest

\* hashlib.sha256(text[:2000].encode('utf-8')).hexdigest(): one key per
\* prefix, whatever follows the prefix
CacheKey(text) == text.prefix

\* len(json.dumps(response_json).encode('utf-8'))
BodySize(resp) == IF resp.body = "big" THEN 2 ELSE 1

\* how one attempt of session.post ends
Outcomes ==
    {"ok", "429", "http_error", "bad_content_type", "transport_error", "timeout", "bad_json"}

\* the exception the attempt raises: raise_for_status raises
\* ClientResponseError, response.json() raises ContentTypeError (a
\* ClientResponseError of status 200) or json.JSONDecodeError
ExceptionOf(outcome) ==
    CASE outcome = "ok" -> "none"
      [] outcome = "429" -> "ClientResponseError429"
      [] outcome \in {"http_error", "bad_content_type"} -> "ClientResponseError"
      [] outcome \in {"transport_error", "timeout"} -> "ClientError"
      [] OTHER -> "JSONDecodeError"

NoRes == [status |-> "none", value |-> NoValue]

IdleCall ==
    [pc |-> "idle", text |-> NoText, prompt |-> "", hit |-> FALSE, attempt |-> 0,
     log |-> <<>>, waits |-> 0, res |-> NoRes]

\* the file cache.json: missing, unreadable, or a JSON object of entries
FileMissing == [state |-> "missing", entries |-> <<>>]
FileCorrupt == [state |-> "corrupt", entries |-> <<>>]
FileOf(entries) == [state |-> "ok", entries |-> entries]

\* cache_key in self.cache
InCache(data, key) == \E i \in 1..Len(data) : data[i].key = key

\* a lookup that returns nothing
CacheValueNone(data, key) == NoValue

\* the value stored under key
CacheValue(data, key) == data[CHOOSE i \in 1..Len(data) : data[i].key = key].value

RemoveKey(keys, key) == SelectSeq(keys, LAMBDA k : k # key)

\* LRUCache.__update: key becomes the most recently used
Touch(lru, key) == Append(RemoveKey(lru, key), key)

\* a store that stores nothing
CacheSetDropped(data, lru, key, value) == [data |-> data, lru |-> lru]

\* LRUCache.__setitem__: at maxsize the least recently used entry is popped
\* first; an existing key keeps its place in the mapping
CacheSet(data, lru, key, value) ==
    IF InCache(data, key)
    THEN [data |-> [i \in 1..Len(data) |->
                      IF data[i].key = key THEN [key |-> key, value |-> value] ELSE data[i]],
          lru |-> Touch(lru, key)]
    ELSE LET full == Len(data) + 1 > MaxEntries
             kept == IF full THEN SelectSeq(data, LAMBDA e : e.key # Head(lru)) ELSE data
             klru == IF full THEN Tail(lru) ELSE lru
         IN  [data |-> Append(kept, [key |-> key, value |-> value]),
              lru |-> Append(klru, key)]

\* a byte bound that everything fits
FitsAlways(bytes, size) == TRUE

\* self.current_cache_size_bytes + size <= self.max_cache_size_bytes
Fits(bytes, size) == bytes + size <= MaxCacheBytes

\* the loop of load_cache over data.items(), from entry i on
RECURSIVE LoadEntries(_, _, _)
LoadEntries(entries, i, acc) ==
    IF i > Len(entries) THEN acc
    ELSE LET value_size == BodySize(entries[i].value)
         IN  IF Fits(acc.bytes, value_size)
             THEN LET set == CacheSet(acc.data, acc.lru, entries[i].key, entries[i].value)
                  IN  LoadEntries(entries, i + 1,
                          [data |-> set.data, lru |-> set.lru, bytes |-> acc.bytes + value_size])
             ELSE acc

\* load_cache: a missing or unreadable file leaves the cache empty
load_cache(file) ==
    LoadEntries(IF file.state = "ok" THEN file.entries ELSE <<>>, 1,
                [data |-> <<>>, lru |-> <<>>, bytes |-> 0])

\* the semaphore when `async with self.semaphore` is left, by a return or by
\* an exception
SlotReleasedNotOnRaise(s, how) == IF how = "raised" THEN s ELSE s + 1

SlotReleased(s, how) == s + 1

\* `if attempt == retries - 1` with a bound that is never met
IsFinalAttemptNever(attempt, retries) == attempt = retries

\* if attempt == retries - 1
IsFinalAttempt(attempt, retries) == attempt = retries - 1

\* the call of caller c leaves query: the block of the semaphore is left too
\* when the call was inside it
Finish(c, status, value, log, waits) ==
    /\ calls' = [calls EXCEPT ![c].pc = "done", ![c].log = log, ![c].waits = waits,
                              ![c].res = [status |-> status, value |-> value]]
    /\ sem' = SlotReleased(sem, status)

\* `async with self.semaphore` is entered: the loop `for attempt in
\* range(retries)` starts, and with retries = 0 ends at once in `return None`
Enter(c, call) ==
    IF env.retries = 0
    THEN /\ calls' = [calls EXCEPT ![c] = [call EXCEPT !.pc = "done",
                                              !.res = [status |-> "absent", value |-> NoValue]]]
         /\ sem' = sem
    ELSE /\ calls' = [calls EXCEPT ![c] = [call EXCEPT !.pc = "request"]]
         /\ sem' = sem - 1

\* query(prompt, text) is called: a hit returns the cached response, a miss
\* goes to the semaphore
Start(c) ==
    /\ c \in env.active
    /\ calls[c].pc = "idle"
    /\ \E text \in env.texts, prompt \in env.prompts :
          LET cache_key == CacheKey(text)
              call == [IdleCall EXCEPT !.text = text, !.prompt = prompt]
          IN  \/ /\ InCache(cacheData, cache_key)
                 /\ calls' = [calls EXCEPT ![c] =
                        [call EXCEPT !.pc = "done", !.hit = TRUE,
                                     !.res = [status |-> "value",
                                              value |-> CacheValue(cacheData, cache_key)]]]
                 /\ cacheLru' = Touch(cacheLru, cache_key)
                 /\ UNCHANGED sem
              \/ /\ ~InCache(cacheData, cache_key)
                 /\ sem > 0
                 /\ Enter(c, call)
                 /\ UNCHANGED cacheLru
              \/ /\ ~InCache(cacheData, cache_key)
                 /\ sem = 0
                 /\ calls' = [calls EXCEPT ![c] = [call EXCEPT !.pc = "waiting"]]
                 /\ UNCHANGED <<sem, cacheLru>>
    /\ UNCHANGED <<otherVars, env, cacheData, cacheBytes, cacheFile>>

\* a caller suspended in `async with self.semaphore` gets a slot
Acquire(c) ==
    /\ calls[c].pc = "waiting"
    /\ sem > 0
    /\ Enter(c, calls[c])
    /\ UNCHANGED <<otherVars, env, cacheData, cacheLru, cacheBytes, cacheFile>>

\* the attempt succeeds: the response is stored when it fits the byte bound
RespondOk(c) ==
    /\ calls[c].pc = "request"
    /\ \E body \in env.bodies :
          LET response_json == ApiResponse(calls[c].prompt, body)
              response_size == BodySize(response_json)
              log == Append(calls[c].log, "ok")
              value == [status |-> "none", value |-> response_json]
          IN  IF Fits(cacheBytes, response_size)
              THEN LET set == CacheSet(cacheData, cacheLru, CacheKey(calls[c].text),
                                       response_json)
                   IN  /\ cacheData' = set.data
                       /\ cacheLru' = set.lru
                       /\ cacheBytes' = cacheBytes + response_size
                       /\ calls' = [calls EXCEPT ![c].pc = "saving", ![c].log = log,
                                                 ![c].res = value]
              ELSE /\ calls' = [calls EXCEPT ![c].pc = "delay", ![c].log = log,
                                             ![c].res = value]
                   /\ UNCHANGED <<cacheData, cacheLru, cacheBytes>>
    /\ UNCHANGED <<otherVars, env, sem, cacheFile>>

\* save_cache: json.dumps(dict(self.cache)) reads every entry in the order
\* of the mapping; the write may fail, before or after the file is truncated
SaveCache(c) ==
    /\ calls[c].pc = "saving"
    /\ \/ /\ cacheFile' = FileOf(cacheData)
          /\ cacheLru' = [i \in 1..Len(cacheData) |-> cacheData[i].key]
       \/ /\ cacheFile' = FileCorrupt
          /\ cacheLru' = [i \in 1..Len(cacheData) |-> cacheData[i].key]
       \/ UNCHANGED <<cacheFile, cacheLru>>
    /\ calls' = [calls EXCEPT ![c].pc = "delay"]
    /\ UNCHANGED <<otherVars, env, sem, cacheData, cacheBytes>>

\* await asyncio.sleep(1) is over: return response_json
Delay(c) ==
    /\ calls[c].pc = "delay"
    /\ Finish(c, "value", calls[c].res.value, calls[c].log, calls[c].waits)
    /\ UNCHANGED <<otherVars, env, cacheData, cacheLru, cacheBytes, cacheFile>>

\* the attempt ends in HTTP 429: sleep 2 ** attempt * 10
Respond429(c) ==
    /\ calls[c].pc = "request"
    /\ calls' = [calls EXCEPT ![c].pc = "backoff", ![c].log = Append(@, "429"),
                              ![c].waits = @ + 1]
    /\ UNCHANGED <<otherVars, env, sem, cacheData, cacheLru, cacheBytes, cacheFile>>

\* the attempt ends in another ClientResponseError, a ClientError or a
\* timeout: return None on the final attempt, else sleep 2 ** attempt
RespondError(c) ==
    /\ calls[c].pc = "request"
    /\ \E outcome \in Outcomes :
          /\ ExceptionOf(outcome) \in {"ClientResponseError", "ClientError"}
          /\ IF IsFinalAttempt(calls[c].attempt, env.retries)
             THEN Finish(c, "absent", NoValue, Append(calls[c].log, outcome), calls[c].waits)
             ELSE /\ calls' = [calls EXCEPT ![c].pc = "backoff",
                                            ![c].log = Append(@, outcome),
                                            ![c].waits = @ + 1]
                  /\ UNCHANGED sem
    /\ UNCHANGED <<otherVars, env, cacheData, cacheLru, cacheBytes, cacheFile>>

\* response.json() raises json.JSONDecodeError, which no except clause of
\* query names: the exception leaves query
RespondUndecodable(c) ==
    /\ calls[c].pc = "request"
    /\ Finish(c, "raised", NoValue, Append(calls[c].log, "bad_json"), calls[c].waits)
    /\ UNCHANGED <<otherVars, env, cacheData, cacheLru, cacheBytes, cacheFile>>

\* the sleep after a failed attempt is over: the next attempt, or the end of
\* the loop and `return None`
Backoff(c) ==
    /\ calls[c].pc = "backoff"
    /\ IF calls[c].attempt + 1 < env.retries
       THEN /\ calls' = [calls EXCEPT ![c].pc = "request", ![c].attempt = @ + 1]
            /\ UNCHANGED sem
       ELSE Finish(c, "absent", NoValue, calls[c].log, calls[c].waits)
    /\ UNCHANGED <<otherVars, env, cacheData, cacheLru, cacheBytes, cacheFile>>

\* the caller has its result and may call query again
Return(c) ==
    /\ calls[c].pc = "done"
    /\ calls' = [calls EXCEPT ![c] = IdleCall]
    /\ UNCHANGED <<otherVars, env, sem, cacheData, cacheLru, cacheBytes, cacheFile>>

----------------------------------------------------------------------------
(* The specification of a ChatGPTClient and its callers.                   *)

Env(active, retries, texts, prompts, bodies) ==
    [active |-> active, retries |-> retries, texts |-> texts,
     prompts |-> prompts, bodies |-> bodies]

TextA == Text("a", "")
TextA2 == Text("a", "x")
TextB == Text("b", "")
TextC == Text("c", "")

\* The runs of the model: three callers of one text with one attempt each;
\* one caller with every number of attempts; one caller whose calls, one
\* after the other, are for three texts of different keys; two callers with
\* several texts and prompts.
Envs ==
    {Env(Callers, 1, {TextA}, {"scoring"}, {"small"})}
    \cup {Env({1}, r, {TextA}, {"scoring"}, {"small"}) : r \in 0..MaxRetries}
    \cup {Env({1}, 1, {TextA, TextB, TextC}, {"scoring"}, {"small"})}
    \cup {Env({1, 2}, 1, {TextA, TextA2, TextB}, {"criteria", "scoring"}, {"small", "big"})}

\* ChatGPTClient.__init__ with the file cache.json as it is at the start
InitQuery ==
    /\ ExtractOff
    /\ CriteriaOff
    /\ DriverOff
    /\ env \in Envs
    /\ calls = [c \in Callers |-> IdleCall]
    /\ sem = GateSlots
    /\ cacheFile = FileMissing
    /\ cacheData = load_cache(cacheFile).data
    /\ cacheLru = load_cache(cacheFile).lru
    /\ cacheBytes = load_cache(cacheFile).bytes

NextQuery ==
    \/ \E c \in Callers : Start(c)
    \/ \E c \in Callers : Acquire(c)
    \/ \E c \in Callers : RespondOk(c)
    \/ \E c \in Callers : SaveCache(c)
    \/ \E c \in Callers : Delay(c)
    \/ \E c \in Callers : Respond429(c)
    \/ \E c \in Callers : RespondError(c)
    \/ \E c \in Callers : RespondUndecodable(c)
    \/ \E c \in Callers : Backoff(c)
    \/ \E c \in Callers : Return(c)

SpecQuery == InitQuery /\ [][NextQuery]_vars

----------------------------------------------------------------------------
(* The specification of the start of a ChatGPTClient: __init__ reads the   *)
(* file cache.json, which this or another process has left behind.         *)

\* the JSON objects a file can hold: up to MaxFileEntries entries with
\* different keys, in the order of the file
FileEntries ==
    UNION {{f \in [1..n -> [key : {"a", "b", "c", "d"}, value : {ApiResponse("scoring", b) : b \in {"small", "big"}}]] :
               \A i, j \in 1..n : i # j => f[i].key # f[j].key} : n \in 0..MaxFileEntries}

InitLoad ==
    /\ ExtractOff
    /\ CriteriaOff
    /\ DriverOff
    /\ env = "init"
    /\ calls = <<>>
    /\ sem = GateSlots
    /\ cacheData = <<>>
    /\ cacheLru = <<>>
    /\ cacheBytes = 0
    /\ cacheFile \in {FileMissing, FileCorrupt} \cup {FileOf(f) : f \in FileEntries}

\* self.load_cache() at the end of __init__
LoadCache ==
    /\ env = "init"
    /\ env' = "loaded"
    /\ cacheData' = load_cache(cacheFile).data
    /\ cacheLru' = load_cache(cacheFile).lru
    /\ cacheBytes' = load_cache(cacheFile).bytes
    /\ UNCHANGED <<otherVars, calls, sem, cacheFile>>

NextLoad == LoadCache

SpecLoad == InitLoad /\ [][NextLoad]_vars

----------------------------------------------------------------------------
(* src/manual_data_extraction.py: adjust_scores_with_rules.                *)
(*                                                                         *)
(* A text is modelled by whether text.lower() holds one of the keywords of *)
(* the novelty rule and one of the keywords of the structure rule.         *)

\* "aktual'nost' izobreteniya, novizna resheniya"
NoveltyName == "aktualnost_novizna"
\* "gramotnost' i kachestvo oformleniya raboty"
FormattingName == "gramotnost_oformlenie"
\* a criterion no rule names
OtherName == "slozhnost_proekta"

\* current_score + k
PyPlus(a, k) == [t |-> a.t, x2 |-> a.x2 + 2 * k]

\* adjusted_scores.get(crit_name, 0)
CurrentScore(adjusted, name) ==
    IF name \in DOMAIN adjusted THEN adjusted[name] ELSE PyInt(0)

\* adjusted_scores[crit_name] = value
SetScore(adjusted, name, value) ==
    [n \in (DOMAIN adjusted) \cup {name} |-> IF n = name THEN value ELSE adjusted[n]]

\* the two branches of a rule
Raise(current, max_score) == PyMin(PyInt(max_score), PyPlus(current, 1))
Lower(current) == PyMax(PyInt(0), PyPlus(current, 0 - 1))

\* the body of `for crit in criteria`, from criterion i on
RECURSIVE AdjustFrom(_, _, _, _)
AdjustFrom(text, adjusted, crit, i) ==
    IF i > Len(crit) THEN adjusted
    ELSE LET crit_name == crit[i].name
             max_score == crit[i].max_score
             current_score == CurrentScore(adjusted, crit_name)
             next ==
                 IF crit_name = NoveltyName
                 THEN SetScore(adjusted, crit_name,
                               IF text.novelty THEN Raise(current_score, max_score)
                               ELSE Lower(current_score))
                 ELSE IF crit_name = FormattingName
                 THEN SetScore(adjusted, crit_name,
                               IF text.structure THEN Raise(current_score, max_score)
                               ELSE Lower(current_score))
                 ELSE adjusted
         IN  AdjustFrom(text, next, crit, i + 1)

adjust_scores_with_rules(text, scores, crit) == AdjustFrom(text, scores, crit, 1)

\* the scores handed to the adjuster: integers, and the halves 0.5 and 2.5
AdjScores == {PyInt(n) : n \in 0..MaxAdjScore} \cup {PyFloat(1), PyFloat(5)}

\* The inputs of adjust_scores_with_rules: every criteria list of up to
\* MaxAdjCriteria criteria, a name twice included as the regular expressions
\* of the rubric produce it, with a score for every name on the list.
InitAdjust ==
    /\ ExtractOff
    /\ CriteriaOff
    /\ QueryOff
    /\ BatchOff
    /\ UploadOff
    /\ \E n \in 1..MaxAdjCriteria :
          \E names \in [1..n -> {NoveltyName, FormattingName, OtherName}] :
              \E novelty \in BOOLEAN, structure \in BOOLEAN :
                  LET crit == [i \in 1..n |-> [name |-> names[i], max_score |-> MaxAdjScore]]
                  IN  \E scores \in [Names(crit) -> AdjScores] :
                          adj = [pc |-> "run",
                                 text |-> [novelty |-> novelty, structure |-> structure],
                                 criteria |-> crit, start |-> scores, scores |-> scores,
                                 applied |-> 0]

\* adjust_scores_with_rules is applied to the scores it returned before
Adjust ==
    /\ adj.pc = "run"
    /\ adj.applied < MaxApplications
    /\ adj' = [adj EXCEPT !.scores = adjust_scores_with_rules(adj.text, adj.scores, adj.criteria),
                          !.applied = @ + 1]
    /\ UNCHANGED <<extractVars, criteriaVars, queryVars, batch, upload>>

NextAdjust == Adjust

SpecAdjust == InitAdjust /\ [][NextAdjust]_vars

----------------------------------------------------------------------------
(* src/main.py: process_files, the driver of a batch.                      *)
(*                                                                         *)
(* A batch is the rubric file and the work files of one request.  A work   *)
(* file is modelled by what happens when it is processed: "fallback" (the  *)
(* AI gives nothing and the fallback result is returned), "ai" (the AI     *)
(* answers with a JSON object), "raises" (extract_metadata_and_scores      *)
(* raises) and "unreadable" (extract_text_from_file raises).  An action is *)
(* what process_files does between two awaits.                             *)

FileKinds == {"fallback", "ai", "raises", "unreadable"}

\* round(x) of Python for x = num / den: halves go to the even neighbour
PyRound(num, den) ==
    LET q == num \div den
        r == num % den
    IN  IF 2 * r < den THEN q
        ELSE IF 2 * r > den THEN q + 1
        ELSE IF q % 2 = 0 THEN q ELSE q + 1

\* the percent of a notification without the cap
PercentNoCap(current_step, total_steps) == PyRound(current_step * 100, total_steps)

\* percent = min(round((current_step / total_steps) * 100), 99)
Percent(current_step, total_steps) ==
    IF PyRound(current_step * 100, total_steps) < PercentCap
    THEN PyRound(current_step * 100, total_steps)
    ELSE PercentCap

\* broadcast_progress(current_step, total_steps): the message it sends
ProgressNote(current_step, total_steps) ==
    [type |-> "progress", current_step |-> current_step, total_steps |-> total_steps,
     percent |-> Percent(current_step, total_steps)]

\* broadcast_complete(): the two messages it sends
CompleteNotes ==
    <<[type |-> "progress", current_step |-> 0, total_steps |-> 0, percent |-> 100],
      [type |-> "complete", current_step |-> 0, total_steps |-> 0, percent |-> 100]>>

\* test_api_connection(): "success", or the status of the HTTPException
test_api_connection(ai) == IF ai = "up" THEN "success" ELSE "503"

\* what chatgpt_client.query gives extract_metadata_and_scores for a file
FileResp(kind) ==
    CASE kind = "ai" -> Resp("content", FALSE, "object", NoMeta, NoScoresVal, NoRecs)
      [] kind = "raises" -> Resp("content_notstr", FALSE, "invalid", NoMeta, NoScoresVal, NoRecs)
      [] OTHER -> Resp("none", FALSE, "invalid", NoMeta, NoScoresVal, NoRecs)

\* the body of `try:` for one work file after its burst of notifications:
\* the entry for `results`, or the exception
ProcessOne(file, kind, text, crit) ==
    IF kind = "unreadable"
    THEN [status |-> "raised", entry |-> <<>>]
    ELSE LET metadata_scores == extract_metadata_and_scores(crit, FileResp(kind))
         IN  IF metadata_scores.status = "raised"
             THEN [status |-> "raised", entry |-> <<>>]
             ELSE [status |-> "returned",
                   entry |-> [filename |-> file,
                              metadata |-> metadata_scores.result.metadata,
                              scores |-> adjust_scores_with_rules(
                                             text, metadata_scores.result.scores, crit),
                              recommendations |-> metadata_scores.result.recommendations]]

\* `results` with the entries of failed files kept too
ResultsAfterKeepAll(results, file, out) ==
    Append(results, [filename |-> file])

\* results.append(...) at the end of `try:`, or `except Exception: continue`
ResultsAfter(results, file, out) ==
    IF out.status = "returned" THEN Append(results, out.entry) ELSE results

\* raise HTTPException(status_code=status)
Fail(status) == [batch EXCEPT !.pc = "failed", !.error = status]

\* what chatgpt_client.query gives extract_criteria for the rubric: nothing,
\* an exception, or an object with an empty list of criteria
RubricResp(kind) ==
    CASE kind = "empty" ->
            CriteriaResp("content", FALSE, "object", [k |-> "list", list |-> <<>>], NoDeclared)
      [] kind = "raise" -> CriteriaResp("raise", FALSE, "invalid", NoAICriteria, NoDeclared)
      [] OTHER -> CriteriaResp("none", FALSE, "invalid", NoAICriteria, NoDeclared)

\* The batches of the model: the AI endpoint up or down, inputs that pass the
\* validation or not, a rubric text with one criterion or with none (the
\* default rubric), and up to MaxFiles work files of every kind.  With the
\* endpoint down the rubric and every file get nothing from the AI.
InitBatch ==
    /\ ExtractOff
    /\ CriteriaOff
    /\ QueryOff
    /\ AdjustOff
    /\ UploadOff
    /\ \E ai \in {"up", "down"}, valid \in BOOLEAN, novelty \in BOOLEAN, structure \in BOOLEAN :
          \E rubric \in {<<>>, <<Item("crit_alpha", MaxItemScore, {1, 2})>>} :
              \E ckind \in {"none", "raise", "empty"} :
                  \E n \in 0..MaxFiles :
                      \E files \in [1..n -> FileKinds] :
                          /\ n = 0 => ~valid
                          /\ ai = "down" =>
                                (ckind = "none" /\ \A i \in 1..n : files[i] = "fallback")
                          /\ batch = [pc |-> "start", ai |-> ai, valid |-> valid,
                                      rubric |-> rubric,
                                      cresponse |-> RubricResp(ckind),
                                      text |-> [novelty |-> novelty, structure |-> structure],
                                      files |-> files, criteria |-> <<>>,
                                      idx |-> 0, step |-> 0, notes |-> <<>>,
                                      attempts |-> <<>>, results |-> <<>>,
                                      error |-> "none", report |-> FALSE]

\* await test_api_connection(): its HTTPException is raised again
TestConnection ==
    /\ batch.pc = "start"
    /\ batch' = IF test_api_connection(batch.ai) = "success"
                THEN [batch EXCEPT !.pc = "validate"]
                ELSE Fail(test_api_connection(batch.ai))
    /\ UNCHANGED <<extractVars, criteriaVars, queryVars, adj, upload>>

\* the checks of the number, size, format, content and uniqueness of the files
Validate ==
    /\ batch.pc = "validate"
    /\ batch' = IF batch.valid THEN [batch EXCEPT !.pc = "criteria"] ELSE Fail("400")
    /\ UNCHANGED <<extractVars, criteriaVars, queryVars, adj, upload>>

\* criteria_data = await extract_criteria(...); `if not criteria` is an error
ExtractCriteria ==
    /\ batch.pc = "criteria"
    /\ LET criteria_data == extract_criteria([blank |-> FALSE, tokens |-> batch.rubric],
                                             batch.cresponse)
       IN  batch' = IF criteria_data.status = "raised" \/ ~criteria_data.result.has_criteria
                    THEN Fail("500")
                    ELSE IF criteria_data.result.criteria = <<>>
                    THEN Fail("400")
                    ELSE [batch EXCEPT !.pc = "burst", !.idx = 1, !.step = 0,
                                       !.criteria = criteria_data.result.criteria]
    /\ UNCHANGED <<extractVars, criteriaVars, queryVars, adj, upload>>

\* one await broadcast_progress(current_step, total_steps) of the burst
Progress ==
    /\ batch.pc = "burst"
    /\ LET steps_per_file == StepsPerFile
           total_steps == Len(batch.files) * steps_per_file
           current_step == (batch.idx - 1) * steps_per_file + batch.step + 1
       IN  batch' = [batch EXCEPT
                        !.notes = Append(@, ProgressNote(current_step, total_steps)),
                        !.step = @ + 1,
                        !.pc = IF batch.step + 1 = steps_per_file THEN "process" ELSE "burst"]
    /\ UNCHANGED <<extractVars, criteriaVars, queryVars, adj, upload>>

\* the rest of the body of the loop for work file idx, and the next file
ProcessFile ==
    /\ batch.pc = "process"
    /\ LET out == ProcessOne(batch.idx, batch.files[batch.idx], batch.text, batch.criteria)
       IN  batch' = [batch EXCEPT
                        !.attempts = Append(@, [filename |-> batch.idx, status |-> out.status]),
                        !.results = ResultsAfter(@, batch.idx, out),
                        !.idx = @ + 1,
                        !.step = 0,
                        !.pc = IF batch.idx = Len(batch.files) THEN "finish" ELSE "burst"]
    /\ UNCHANGED <<extractVars, criteriaVars, queryVars, adj, upload>>

\* after the loop: `if not results` is an error; else the reports are
\* written and broadcast_complete() sends the 100% and the completion
FinishBatch ==
    /\ batch.pc = "finish"
    /\ batch' = IF batch.results = <<>>
                THEN Fail("400")
                ELSE [batch EXCEPT !.pc = "done", !.report = TRUE,
                                   !.notes = @ \o CompleteNotes]
    /\ UNCHANGED <<extractVars, criteriaVars, queryVars, adj, upload>>

NextBatch ==
    \/ TestConnection
    \/ Validate
    \/ ExtractCriteria
    \/ Progress
    \/ ProcessFile
    \/ FinishBatch

SpecBatch == InitBatch /\ [][NextBatch]_vars

----------------------------------------------------------------------------
(* src/main.py: process_files, the checks of the uploaded files, and       *)
(* src/manual_data_extraction.py: extract_text_from_file.                  *)
(*                                                                         *)
(* An uploaded file is modelled by the suffix of its name, its size, its   *)
(* bytes and the read position of file.file.  The bytes are modelled by    *)
(* what they hold: "text" (a document of the format of the suffix, with    *)
(* the text of number id), "notext" (such a document without text),        *)
(* "blank" (white space only), "corrupt" (no document of that format) and  *)
(* "empty" (no byte).  The checks start when test_api_connection has       *)
(* returned.                                                               *)

Bytes(kind, id) == [kind |-> kind, id |-> id]
NoBytes == Bytes("empty", 0)

\* an UploadFile as process_files receives it
Upload(ext, size, data) == [ext |-> ext, size |-> size, data |-> data, pos |-> "start"]

\* a text: the text of number id, or a string that strip() leaves empty
FullText(id) == [blank |-> FALSE, id |-> id]
BlankText == [blank |-> TRUE, id |-> 0]

SupportedExts == {".docx", ".pdf", ".txt"}

\* file.file.read(): the bytes from the read position to the end
ReadAll(file) == IF file.pos = "start" THEN file.data ELSE NoBytes

\* not content.strip()
BlankBytes(content) == content.kind \in {"empty", "blank"}

\* hashlib.md5(content).hexdigest(): one hash per content
Md5(content) == content

\* extract_text_from_file(file): the text it returns or the HTTPException it
\* raises, and the read position it leaves.  A .txt file is decoded from the
\* bytes that file.file.read() has just returned; Document and PdfReader
\* are given file.file and seek in it themselves.
extract_text_from_file(file) ==
    LET content == ReadAll(file)
    IN  CASE file.ext = ".txt" ->
                IF content.kind = "corrupt"
                THEN [status |-> "400", text |-> BlankText, pos |-> "end"]
                ELSE [status |-> "returned",
                      text |-> IF content.kind = "text" THEN FullText(content.id)
                               ELSE BlankText,
                      pos |-> "end"]
          [] file.ext \in {".docx", ".pdf"} ->
                IF file.data.kind \in {"text", "notext"}
                THEN [status |-> "returned",
                      text |-> IF file.data.kind = "text" THEN FullText(file.data.id)
                               ELSE BlankText,
                      pos |-> "parsed"]
                ELSE [status |-> "400", text |-> BlankText, pos |-> "parsed"]
          [] OTHER -> [status |-> "400", text |-> BlankText, pos |-> "end"]

\* raise HTTPException(status_code=status) during the checks
UploadFail(status) == [upload EXCEPT !.pc = "failed", !.error = status]

UploadExts == SupportedExts \cup {".exe"}

\* the files of the model: without a byte; of one byte or more, with every
\* content; and at and over the size limit
Uploads ==
    {Upload(ext, 0, NoBytes) : ext \in UploadExts}
    \cup {Upload(ext, 1, Bytes("text", id)) : ext \in UploadExts, id \in 1..(MaxUploads + 1)}
    \cup {Upload(ext, 1, Bytes(kind, 0)) : ext \in UploadExts, kind \in {"blank", "corrupt"}}
    \cup {Upload(ext, 1, Bytes("notext", 0)) : ext \in UploadExts \ {".txt"}}
    \cup {Upload(ext, size, Bytes("text", 1)) :
             ext \in UploadExts, size \in {SizeLimit, SizeLimit + 1}}

\* The uploads of the model: the rubric file (the first of files) and up to
\* MaxUploads work files.
InitUpload ==
    /\ ExtractOff
    /\ CriteriaOff
    /\ QueryOff
    /\ AdjustOff
    /\ BatchOff
    /\ \E n \in 1..(MaxUploads + 1) :
          \E files \in [1..n -> Uploads] :
              upload = [pc |-> "count", files |-> files, idx |-> 0, file_hashes |-> {},
                        seen |-> <<>>, later |-> <<>>, error |-> "none"]

\* if not work_files or len(work_files) > 30
CheckCount ==
    /\ upload.pc = "count"
    /\ LET work_files == Tail(upload.files)
       IN  upload' = IF work_files = <<>> \/ Len(work_files) > WorkFileLimit
                     THEN UploadFail("400")
                     ELSE [upload EXCEPT !.pc = "format"]
    /\ UNCHANGED <<extractVars, criteriaVars, queryVars, adj, batch>>

\* `for file in [criteria_file] + work_files`: the size and the suffix
CheckSizeFormat ==
    /\ upload.pc = "format"
    /\ upload' = IF \E i \in 1..Len(upload.files) :
                        \/ upload.files[i].size > SizeLimit
                        \/ upload.files[i].size = 0
                        \/ upload.files[i].ext \notin SupportedExts
                 THEN UploadFail("400")
                 ELSE [upload EXCEPT !.pc = "content", !.idx = 1]
    /\ UNCHANGED <<extractVars, criteriaVars, queryVars, adj, batch>>

\* the `try:` of the content check of the rubric file (idx 1) or of a work
\* file: read(), the test on the bytes, extract_text_from_file, the test on
\* the text, the test on the hash, seek(0)
CheckContent ==
    /\ upload.pc = "content"
    /\ LET file == upload.files[upload.idx]
           content == ReadAll(file)
           read == [file EXCEPT !.pos = "end"]
           out == extract_text_from_file(read)
           file_hash == Md5(content)
       IN  upload' =
               IF BlankBytes(content) THEN UploadFail("400")
               ELSE IF out.status # "returned" THEN UploadFail(out.status)
               ELSE IF out.text.blank THEN UploadFail("400")
               ELSE IF file_hash \in upload.file_hashes THEN UploadFail("400")
               ELSE [upload EXCEPT
                        !.file_hashes = @ \cup {file_hash},
                        !.seen = Append(@, out.text),
                        !.files[upload.idx].pos = "start",
                        !.idx = @ + 1,
                        !.pc = IF upload.idx = Len(upload.files) THEN "pipeline"
                               ELSE "content"]
    /\ UNCHANGED <<extractVars, criteriaVars, queryVars, adj, batch>>

\* the pipeline extracts the text of the next file: extract_criteria for the
\* rubric file, the loop of process_files for a work file
ExtractLater ==
    /\ upload.pc = "pipeline"
    /\ LET i == Len(upload.later) + 1
           out == extract_text_from_file(upload.files[i])
       IN  upload' = [upload EXCEPT
                         !.later = Append(@, [status |-> out.status, text |-> out.text]),
                         !.files[i].pos = out.pos,
                         !.pc = IF i = Len(upload.files) THEN "done" ELSE "pipeline"]
    /\ UNCHANGED <<extractVars, criteriaVars, queryVars, adj, batch>>

NextUpload ==
    \/ CheckCount
    \/ CheckSizeFormat
    \/ CheckContent
    \/ ExtractLater

SpecUpload == InitUpload /\ [][NextUpload]_vars

----------------------------------------------------------------------------
(* Claims about extract_metadata_and_scores.                               *)

Max2(a, b) == IF a > b THEN a ELSE b
Min2(a, b) == IF a < b THEN a ELSE b

\* the AI response is a string that parses to a JSON object
Parseable == response.kind = "content" /\ response.json = "object"

\* the entry of the AI scores for criterion i, "missing" without a scores mapping
AIEntry(i) ==
    IF Parseable /\ response.scores.k = "dict"
    THEN response.scores.d[criteria[i].name]
    ELSE Entry("missing", 0)

\* C1: whatever the criteria (max_score >= 0) and whatever the AI call gave,
\* the returned result has a score for every criterion name, and each score
\* is an integer in [0, max_score] of its criterion.
C1_ScoresInRange ==
    epc = "returned" =>
        \A i \in 1..Len(criteria) :
            /\ criteria[i].name \in DOMAIN result.scores
            /\ result.scores[criteria[i].name].t = "int"
            /\ result.scores[criteria[i].name].x2 >= 0
            /\ result.scores[criteria[i].name].x2 <= 2 * criteria[i].max_score

\* C2: whatever response the AI client returned, extract_metadata_and_scores
\* returns normally, and its result has the four metadata fields, a score
\* for every criterion and exactly two recommendation strings.
C2_NeverFails ==
    (epc # "call" /\ response.kind # "raise") =>
        /\ epc = "returned"
        /\ DOMAIN result.metadata = MetaKeys
        /\ Names(criteria) \subseteq DOMAIN result.scores
        /\ Len(result.recommendations) = 2
        /\ \A i \in 1..2 : result.recommendations[i].str

\* C3 as stated: an AI-proposed integer score s outside [0, max_score] is
\* stored as max(0, min(s, max_score)); a negative one is stored as 0.
C3_StoredIsClamped ==
    epc = "returned" =>
        \A i \in 1..Len(criteria) :
            LET e == AIEntry(i)
                m == criteria[i].max_score
            IN  (e.e = "int" /\ (e.x2 < 0 \/ e.x2 > 2 * m)) =>
                    result.scores[criteria[i].name] = PyInt(Max2(0, Min2(e.x2 \div 2, m)))

\* C3 amended: an AI-proposed integer score s outside [0, max_score] is
\* clamped to c = max(0, min(s, max_score)); c is stored when c > 0, and when
\* c = 0 (s negative, or max_score 0) the fallback score max(1, max_score - 1)
\* is kept.
C3_ClampedUnlessZero ==
    epc = "returned" =>
        \A i \in 1..Len(criteria) :
            LET e == AIEntry(i)
                m == criteria[i].max_score
                c == Max2(0, Min2(e.x2 \div 2, m))
            IN  (e.e = "int" /\ (e.x2 < 0 \/ e.x2 > 2 * m)) =>
                    result.scores[criteria[i].name] =
                        IF c > 0 THEN PyInt(c) ELSE PyInt(Max2(1, m - 1))

\* an AI score of 10 for max_score 4 is stored as 4, next to a negative AI
\* score whose criterion kept its fallback score
C3_Witness ==
    /\ epc = "returned"
    /\ Len(criteria) = 2
    /\ criteria[1].max_score = 4 /\ AIEntry(1) = Entry("int", 20)
    /\ result.scores[criteria[1].name] = PyInt(4)
    /\ criteria[2].max_score = 3 /\ AIEntry(2) = Entry("int", 0 - 2)
    /\ result.scores[criteria[2].name] = PyInt(2)

\* C4: when the AI supplies score 0, or no score field, for a criterion, the
\* stored score of that criterion is the fallback max(1, max_score - 1).
C4_ZeroKeepsFallback ==
    epc = "returned" =>
        \A i \in 1..Len(criteria) :
            (AIEntry(i) = Entry("int", 0) \/ AIEntry(i).e = "nofield") =>
                result.scores[criteria[i].name] = PyInt(Max2(1, criteria[i].max_score - 1))

\* an AI score of 0 for one criterion and no score field for the other, both
\* of which kept their positive fallback scores
C4_Witness ==
    /\ epc = "returned"
    /\ Len(criteria) = 2
    /\ AIEntry(1) = Entry("int", 0) /\ criteria[1].max_score = 4
    /\ result.scores[criteria[1].name] = PyInt(3)
    /\ AIEntry(2).e = "nofield" /\ criteria[2].max_score = 1
    /\ result.scores[criteria[2].name] = PyInt(1)

\* the candidate list is rejected by one of the four tests of the claim
C5_Rejected(l) ==
    \/ Len(l) # 2
    \/ \E i \in 1..Len(l) : ~l[i].str \/ l[i].words = 0
    \/ (Len(l) = 2 /\ l[1].words + l[2].words > 60)
    \/ \E i \in 1..Len(l) : ~l[i].term

\* C5: for a parseable AI response, a rejected candidate recommendations
\* list leaves exactly the two fallback strings, any other list is taken
\* whole; the result is never a mix of the two.
C5_AllOrNothing ==
    (epc = "returned" /\ Parseable) =>
        LET cand == response.recommendations
            fb == <<Rec("fallback1", TRUE, 9, TRUE), Rec("fallback2", TRUE, 9, TRUE)>>
        IN  IF cand.k = "list" /\ ~C5_Rejected(cand.list)
            THEN result.recommendations = cand.list
            ELSE result.recommendations = fb

\* an AI pair of exactly 60 words was taken whole
C5_Witness ==
    /\ epc = "returned" /\ Parseable
    /\ response.recommendations.k = "list"
    /\ Len(response.recommendations.list) = 2
    /\ response.recommendations.list[1].words + response.recommendations.list[2].words = 60
    /\ result.recommendations = response.recommendations.list
    /\ result.recommendations[1].text = "ai"

\* the AI is unavailable: no response, no choices, or a content string that
\* is not JSON
Unavailable ==
    \/ response.kind \in {"none", "nochoices", "emptychoices"}
    \/ (response.kind = "content" /\ response.json = "invalid")

\* C7: with the AI unavailable, extract_metadata_and_scores returns exactly
\* the fallback result: "Unknown" in every metadata field, max(1, max_score-1)
\* for every criterion, and the two fixed recommendations.
C7_FallbackResult ==
    (epc # "call" /\ Unavailable) =>
        /\ epc = "returned"
        /\ result.metadata = [k \in {"author", "grade", "school", "title"} |-> "Unknown"]
        /\ DOMAIN result.scores = Names(criteria)
        /\ \A i \in 1..Len(criteria) :
              result.scores[criteria[i].name] = PyInt(Max2(1, criteria[i].max_score - 1))
        /\ result.recommendations =
              <<Rec("fallback1", TRUE, 9, TRUE), Rec("fallback2", TRUE, 9, TRUE)>>

\* a content that is not JSON gave the scores 3 (of 4) and 1 (of 2)
C7_Witness ==
    /\ epc = "returned"
    /\ response.kind = "content" /\ response.json = "invalid"
    /\ Len(criteria) = 2
    /\ criteria[1].max_score = 4 /\ result.scores[criteria[1].name] = PyInt(3)
    /\ criteria[2].max_score = 2 /\ result.scores[criteria[2].name] = PyInt(1)

----------------------------------------------------------------------------
(* Claims about extract_criteria.                                          *)

----------------------------------------------------------------------------
(* Claims about ChatGPTClient.query.                                       *)

\* the call of caller c holds a slot of the gate: it is issuing a request,
\* storing the response, in the delay after a success, or backing off
PastGate(c) == calls[c].pc \in {"request", "saving", "delay", "backoff"}

\* the attempts that end in a failure query handles
HandledFailures == {"429", "http_error", "bad_content_type", "transport_error", "timeout"}

\* C8: query never raises to its caller: every call ends with a response or
\* with absent, and a call whose attempts all failed ends with absent.
C8_NeverRaises ==
    \A c \in Callers :
        calls[c].pc = "done" =>
            /\ calls[c].res.status \in {"value", "absent"}
            /\ (~calls[c].hit /\ \A i \in 1..Len(calls[c].log) : calls[c].log[i] # "ok")
                  => calls[c].res.status = "absent"

\* C9: never more than 2 calls are past the gate, and the free slots are
\* always 2 less the calls past the gate, however those calls ended before:
\* with no call in flight the free slots are 2 again.
C9_GateBound ==
    /\ Cardinality({c \in Callers : PastGate(c)}) <= 2
    /\ sem = 2 - Cardinality({c \in Callers : PastGate(c)})

\* two calls are past the gate and a third is suspended at it
C9_Witness ==
    /\ sem = 0
    /\ \E a, b, c \in Callers :
          /\ a # b
          /\ PastGate(a) /\ PastGate(b)
          /\ calls[c].pc = "waiting"

\* C10: on a cache miss query issues at most `retries` requests, no request
\* follows a success, and a call whose attempts all failed (429, other HTTP
\* errors, transport errors, timeouts) made `retries` requests and returns
\* absent: without a wait after a final failure that is not a 429, and after
\* a wait when the final failure is a 429.
C10_RetryBound ==
    \A c \in Callers :
        LET k == calls[c]
            n == Len(k.log)
        IN  /\ n <= env.retries
            /\ \A i \in 1..n : k.log[i] = "ok" => i = n
            /\ (n > 0 /\ k.log[n] = "ok") =>
                  /\ k.pc \in {"saving", "delay", "done"}
                  /\ k.pc = "done" => k.res.status = "value"
            /\ (k.pc = "done" /\ ~k.hit /\ \A i \in 1..n : k.log[i] \in HandledFailures) =>
                  /\ k.res.status = "absent"
                  /\ n = env.retries
                  /\ k.waits = IF n = 0 THEN 0 ELSE IF k.log[n] = "429" THEN n ELSE n - 1

\* three attempts failed, the last one not with a 429: absent after two waits
C10_Witness ==
    \E c \in Callers :
        /\ calls[c].pc = "done"
        /\ env.retries = 3
        /\ Len(calls[c].log) = 3
        /\ calls[c].log[1] = "429"
        /\ calls[c].log[3] \in {"http_error", "transport_error", "timeout"}
        /\ calls[c].res.status = "absent"
        /\ calls[c].waits = 2

\* C11: a call whose key is in the cache returns the cached response in the
\* step that calls query: it takes no slot of the gate (so it succeeds with
\* both slots held), issues no request, waits for nothing, and leaves the
\* entries of the cache, the byte counter and the file as they are.
C11_HitBypass ==
    [][\A c \in Callers :
          (/\ calls[c].pc = "idle"
           /\ calls'[c].pc # "idle"
           /\ \E i \in 1..Len(cacheData) : cacheData[i].key = CacheKey(calls'[c].text))
          => /\ calls'[c].pc = "done"
             /\ calls'[c].res.status = "value"
             /\ \E i \in 1..Len(cacheData) :
                   /\ cacheData[i].key = CacheKey(calls'[c].text)
                   /\ cacheData[i].value = calls'[c].res.value
             /\ calls'[c].log = <<>>
             /\ calls'[c].waits = 0
             /\ sem' = sem
             /\ cacheData' = cacheData
             /\ cacheBytes' = cacheBytes
             /\ cacheFile' = cacheFile]_vars

\* a call has returned from a hit while both slots of the gate are held
C11_Witness ==
    \E c \in Callers :
        /\ calls[c].pc = "done"
        /\ calls[c].hit
        /\ calls[c].res.status = "value"
        /\ sem = 0
        /\ Cardinality({d \in Callers : PastGate(d)}) = 2

\* the step in which the request of caller c succeeds with a response
Succeeds(c) ==
    /\ calls[c].pc = "request"
    /\ calls'[c].pc \in {"saving", "delay"}

\* the lookup of key k in the cache d gives the value v
LookupGives(d, k, v) == \E i \in 1..Len(d) : d[i].key = k /\ d[i].value = v

\* the lookup of key k in the cache d is a miss
LookupMisses(d, k) == \A i \in 1..Len(d) : d[i].key # k

\* C12 (as stated): right after a successful call has its response v for key
\* k, a lookup of k gives v when v fits the byte bound, and is a miss when
\* storing v would push the byte counter over the bound.
C12_RoundTrip ==
    [][\A c \in Callers :
          Succeeds(c) =>
              LET k == CacheKey(calls[c].text)
                  v == calls'[c].res.value
              IN  IF cacheBytes + BodySize(v) <= MaxCacheBytes
                  THEN LookupGives(cacheData', k, v)
                  ELSE LookupMisses(cacheData', k)]_vars

\* C12 (amended): right after a successful call has its response v for key
\* k, a lookup of k gives v when v fits the byte bound; when storing v would
\* push the byte counter over the bound, v is not stored and a lookup of k
\* gives what it gave before: a miss, unless a concurrent call of the same
\* key has stored its own response in the meantime.
C12_RoundTripUnlessRace ==
    [][\A c \in Callers :
          Succeeds(c) =>
              LET k == CacheKey(calls[c].text)
                  v == calls'[c].res.value
              IN  IF cacheBytes + BodySize(v) <= MaxCacheBytes
                  THEN LookupGives(cacheData', k, v)
                  ELSE /\ cacheData' = cacheData
                       /\ LookupMisses(cacheData, k) <=> LookupMisses(cacheData', k)
                       /\ ~LookupGives(cacheData', k, v) \/ LookupGives(cacheData, k, v)]_vars

\* one call has just stored its response and a lookup of its key gives it;
\* another has a response that did not fit, and a lookup of its key misses
C12_Witness ==
    \E c, d \in Callers :
        /\ calls[c].pc = "saving"
        /\ LookupGives(cacheData, CacheKey(calls[c].text), calls[c].res.value)
        /\ calls[d].pc = "delay"
        /\ cacheBytes + BodySize(calls[d].res.value) > MaxCacheBytes
        /\ LookupMisses(cacheData, CacheKey(calls[d].text))

----------------------------------------------------------------------------
(* Claims about adjust_scores_with_rules.                                  *)

\* C13: for a text without any trigger keyword, k applications of the
\* adjuster leave each of the two targeted criteria at max(0, s - k), s the
\* score at the start (k = 1, 2), and every other score as it was.
C13_LowersByOne ==
    (adj.pc = "run" /\ ~adj.text.novelty /\ ~adj.text.structure) =>
        /\ DOMAIN adj.scores = DOMAIN adj.start
        /\ \A n \in DOMAIN adj.start :
              IF n \in {NoveltyName, FormattingName}
              THEN adj.scores[n].x2 = Max2(0, adj.start[n].x2 - 2 * adj.applied)
              ELSE adj.scores[n] = adj.start[n]

----------------------------------------------------------------------------
(* Claims about process_files.                                             *)

\* the work files whose processing raises nothing
Completes(kind) == kind \in {"fallback", "ai"}

\* the file names of a sequence of attempts or of results
FileNames(seq) == [i \in 1..Len(seq) |-> seq[i].filename]

\* the loop over the work files has been entered
InLoop == batch.pc \in {"burst", "process", "finish", "done"} \/
          (batch.pc = "failed" /\ batch.criteria # <<>>)

\* C14: a batch with valid inputs in which every request to the AI endpoint
\* fails is never ended by an error: it ends with a result for every
\* work file.
C14_NeverHalts ==
    (batch.pc \in {"done", "failed"} /\ batch.ai = "down" /\ batch.valid) =>
        /\ batch.pc = "done"
        /\ Len(batch.results) = Len(batch.files)

\* C15: the work files are attempted once each and in input order, a file
\* whose processing raises is skipped and the next one is attempted, the
\* results are exactly the files that completed, in input order, and a batch
\* without any completed file ends with an error and without a report.
C15_Isolation ==
    InLoop =>
        /\ Len(batch.attempts) <= Len(batch.files)
        /\ \A i \in 1..Len(batch.attempts) :
              /\ batch.attempts[i].filename = i
              /\ batch.attempts[i].status = "returned" <=> Completes(batch.files[i])
        /\ FileNames(batch.results) =
              FileNames(SelectSeq(batch.attempts, LAMBDA a : Completes(batch.files[a.filename])))
        /\ batch.pc \in {"burst", "process"} => Len(batch.attempts) = batch.idx - 1
        /\ batch.pc \in {"finish", "done", "failed"} => Len(batch.attempts) = Len(batch.files)
        /\ batch.pc = "done" => (batch.results # <<>> /\ batch.report)
        /\ batch.pc = "failed" =>
              /\ batch.results = <<>>
              /\ batch.error = "400"
              /\ ~batch.report
        /\ (batch.pc \in {"done", "failed"} /\ batch.results = <<>>) => batch.pc = "failed"

\* a batch of three files has ended: the first and the third raised, and the
\* results hold the second
C15_Witness ==
    /\ batch.pc = "done"
    /\ Len(batch.files) = 3
    /\ batch.files[1] = "raises"
    /\ batch.files[3] = "unreadable"
    /\ FileNames(batch.results) = <<2>>

\* the notifications of the bursts: all but the two of broadcast_complete
BurstNotes ==
    IF batch.pc = "done" THEN SubSeq(batch.notes, 1, Len(batch.notes) - 2) ELSE batch.notes

\* C16: the notifications of the bursts carry strictly increasing steps, ten
\* for every work file attempted, failed or not, each with a percent below
\* 100; the 100% notification is sent after every work file has been
\* attempted, and the completion message directly follows it.
C16_ProgressOrder ==
    InLoop =>
        /\ \A i, j \in 1..Len(BurstNotes) :
              i < j => BurstNotes[i].current_step < BurstNotes[j].current_step
        /\ \A i \in 1..Len(BurstNotes) :
              /\ BurstNotes[i].type = "progress"
              /\ BurstNotes[i].percent < 100
        /\ Len(BurstNotes) = 10 * Len(batch.attempts) + batch.step
        /\ \A i \in 1..Len(batch.notes) :
              batch.notes[i].percent = 100 =>
                  /\ Len(batch.attempts) = Len(batch.files)
                  /\ i >= Len(batch.notes) - 1
                  /\ batch.notes[Len(batch.notes) - 1].type = "progress"
                  /\ batch.notes[Len(batch.notes)].type = "complete"

\* a batch of two files, the first of which failed, has sent its twenty
\* notifications, the last with 99 percent, and then the 100% and the
\* completion
C16_Witness ==
    /\ batch.pc = "done"
    /\ Len(batch.files) = 2
    /\ batch.attempts[1].status = "raised"
    /\ Len(batch.notes) = 22
    /\ batch.notes[20].percent = 99
    /\ batch.notes[21].percent = 100
    /\ batch.notes[22].type = "complete"

----------------------------------------------------------------------------
(* Claims about the key of the cache.                                      *)

\* the step in which caller c calls query
Starts(c) == calls[c].pc = "idle" /\ calls'[c].pc # "idle"

\* C17: a call of query whose text agrees on its first 2000 characters with
\* a text whose response the cache holds returns that response as a hit,
\* whatever its prompt and whatever follows the first 2000 characters.
C17_KeyIsPrefix ==
    [][\A c \in Callers :
          Starts(c) =>
              \A t \in env.texts :
                  \A i \in 1..Len(cacheData) :
                      (t.prefix = calls'[c].text.prefix /\ cacheData[i].key = CacheKey(t))
                      => /\ calls'[c].hit
                         /\ calls'[c].res = [status |-> "value", value |-> cacheData[i].value]]_vars

\* a call with the criteria prompt has just stored its response; a call with
\* the scoring prompt and a text that differs past the first 2000 characters
\* has returned that response
C17_Witness ==
    \E c, d \in Callers :
        /\ calls[d].pc = "saving"
        /\ calls[d].text = TextA
        /\ calls[d].prompt = "criteria"
        /\ calls[c].pc = "done"
        /\ calls[c].hit
        /\ calls[c].text = TextA2
        /\ calls[c].prompt = "scoring"
        /\ calls[c].res.value = calls[d].res.value
        /\ calls[c].res.value.prompt = "criteria"

----------------------------------------------------------------------------
(* Claims about extract_criteria_fallback.                                 *)

\* the AI gave extract_criteria nothing
RubricAIUnavailable == cresponse.kind \in {"none", "nochoices"}

\* text is a list of items "name (0-N points)" separated by ", ", each with
\* a name that passes the test on names
CommaSeparated(text) ==
    /\ Len(text) >= 1
    /\ \A i \in 1..Len(text) :
          /\ text[i].type = "item"
          /\ text[i].fams = {2}
          /\ text[i].lead = (IF i = 1 THEN "" ELSE ",")
          /\ NameLength(text[i].name) > MinNameLen
          /\ ~HasExclusionKeyword(text[i].name)

\* C18: for a rubric text of items "name (0-N points)" separated by ", ",
\* with the AI unavailable, the criteria returned are the items in order,
\* each with the name of its item and N as max_score, and max_total_score
\* is the sum of the N.
C18_CommaSeparated ==
    (cpc = "returned" /\ RubricAIUnavailable /\ CommaSeparated(ctext.tokens)) =>
        /\ cresult.criteria =
              [i \in 1..Len(ctext.tokens) |->
                  [name |-> ctext.tokens[i].name, max_score |-> ctext.tokens[i].n]]
        /\ cresult.max_total_score = SumMaxScore(cresult.criteria)

----------------------------------------------------------------------------
(* Claims about the byte bound of the cache.                               *)

\* C19: when the size of a new response would push the byte counter over the
\* byte bound, the step that receives the response leaves the entries of the
\* cache, the byte counter and the file as they are, whatever room the entry
\* bound leaves, and the call then returns the response.
C19_SkipNotEvict ==
    [][\A c \in Callers :
          /\ (Succeeds(c) /\ cacheBytes + BodySize(calls'[c].res.value) > MaxCacheBytes) =>
                /\ calls'[c].pc = "delay"
                /\ calls'[c].res.value.prompt = calls[c].prompt
                /\ cacheData' = cacheData
                /\ cacheLru' = cacheLru
                /\ cacheBytes' = cacheBytes
                /\ cacheFile' = cacheFile
          /\ (calls[c].pc = "delay" /\ calls'[c].pc # "delay") =>
                /\ calls'[c].pc = "done"
                /\ calls'[c].res = [status |-> "value", value |-> calls[c].res.value]]_vars

\* a call has returned a response that was not stored, with an entry in the
\* cache and room for another
C19_Witness ==
    \E c \in Callers :
        /\ calls[c].pc = "done"
        /\ ~calls[c].hit
        /\ calls[c].res.status = "value"
        /\ cacheBytes + BodySize(calls[c].res.value) > MaxCacheBytes
        /\ LookupMisses(cacheData, CacheKey(calls[c].text))
        /\ Len(cacheData) >= 1
        /\ Len(cacheData) < MaxEntries

----------------------------------------------------------------------------
(* Claims about load_cache.                                                *)

\* the sum of the sizes of the values of entries
RECURSIVE SumSizes(_)
SumSizes(entries) ==
    IF entries = <<>> THEN 0 ELSE BodySize(Head(entries).value) + SumSizes(Tail(entries))

\* the length of the longest prefix of entries whose sizes fit the byte bound
LongestFittingPrefix(entries) ==
    CHOOSE k \in 0..Len(entries) :
        /\ SumSizes(SubSeq(entries, 1, k)) <= MaxCacheBytes
        /\ k < Len(entries) => SumSizes(SubSeq(entries, 1, k + 1)) > MaxCacheBytes

\* C20: after load_cache the cache holds exactly the longest prefix of the
\* entries of the file, in the order of the file, whose sizes fit the byte
\* bound, and the byte counter is the sum of the sizes of the entries the
\* cache holds.
C20_LoadsPrefix ==
    (env = "loaded" /\ cacheFile.state = "ok") =>
        /\ cacheData = SubSeq(cacheFile.entries, 1, LongestFittingPrefix(cacheFile.entries))
        /\ cacheBytes = SumSizes(cacheData)

----------------------------------------------------------------------------
(* Claims about the byte accounting of the cache.                          *)

\* the call of caller c has missed and has just stored its response
JustStored(c) == calls[c].pc = "saving" /\ ~calls[c].hit

\* C21: when two concurrent calls of the same key have both missed and both
\* stored their response, the cache holds one entry for the key and the
\* byte counter is the sum of the sizes of the entries held: the second
\* store has not been counted on top of the first.
C21_RaceBenign ==
    \A c, d \in Callers :
        (/\ c # d
         /\ JustStored(c)
         /\ JustStored(d)
         /\ CacheKey(calls[c].text) = CacheKey(calls[d].text)) =>
            /\ Cardinality({i \in 1..Len(cacheData) :
                              cacheData[i].key = CacheKey(calls[c].text)}) = 1
            /\ cacheBytes = SumSizes(cacheData)


----------------------------------------------------------------------------
(* Claims about the overlay of the AI fields on the fallback result.       *)

\* C22: for an AI response that parses to a JSON object the call returns, and
\* each field of the result is decided by its own AI field alone: metadata
\* that is no mapping leaves the "Unknown" metadata; a criterion without an
\* entry in the AI scores (or with scores that are no mapping) keeps its
\* fallback score while a criterion with an integer AI score in
\* [1, max_score] has that score; a rejected recommendations list leaves the
\* two fallback strings; and the result has a score for the names of the
\* criteria list only.
C22_FieldByField ==
    (epc # "call" /\ Parseable) =>
        /\ epc = "returned"
        /\ response.metadata.k # "dict" =>
              result.metadata = [k \in {"author", "grade", "school", "title"} |-> "Unknown"]
        /\ DOMAIN result.scores = Names(criteria)
        /\ \A i \in 1..Len(criteria) :
              LET e == AIEntry(i)
                  m == criteria[i].max_score
              IN  /\ e.e \in {"missing", "notdict"} =>
                        result.scores[criteria[i].name] = PyInt(Max2(1, m - 1))
                  /\ (e.e = "int" /\ e.x2 >= 2 /\ e.x2 <= 2 * m) =>
                        result.scores[criteria[i].name] = PyInt(e.x2 \div 2)
        /\ (response.recommendations.k # "list"
                \/ C5_Rejected(response.recommendations.list)) =>
              result.recommendations =
                  <<Rec("fallback1", TRUE, 9, TRUE), Rec("fallback2", TRUE, 9, TRUE)>>


----------------------------------------------------------------------------
(* Claims about one application of adjust_scores_with_rules.               *)

\* the rule of criterion name n finds one of its keywords in the text
Signal(n) == IF n = NoveltyName THEN adj.text.novelty ELSE adj.text.structure

\* C23: one application of the adjuster to scores s returns, for each of the
\* two targeted criteria on the criteria list, min(max_score, s + 1) when a
\* keyword of its rule occurs in the text and max(0, s - 1) otherwise; every
\* other entry is returned as it was; and scores in [0, max_score] give
\* scores in [0, max_score].
C23_OneStepBounded ==
    (adj.pc = "run" /\ adj.applied = 1) =>
        /\ DOMAIN adj.scores = DOMAIN adj.start
        /\ \A i \in 1..Len(adj.criteria) :
              LET n == adj.criteria[i].name
                  m == adj.criteria[i].max_score
                  s == adj.start[n].x2
              IN  /\ adj.scores[n].x2 =
                        IF n \notin {NoveltyName, FormattingName} THEN s
                        ELSE IF Signal(n) THEN Min2(2 * m, s + 2)
                        ELSE Max2(0, s - 2)
                  /\ (s >= 0 /\ s <= 2 * m) =>
                        (adj.scores[n].x2 >= 0 /\ adj.scores[n].x2 <= 2 * m)


----------------------------------------------------------------------------
(* Claims about the order of the patterns of the regex fallback.           *)

\* the criteria of the first pattern family that matches an item of text,
\* the hard-coded rubric when no family does
FirstYield(text) ==
    IF \E f \in 1..3 : MatchesOf(text, f, 1) # <<>>
    THEN MatchesOf(text,
                   CHOOSE f \in 1..3 :
                       /\ MatchesOf(text, f, 1) # <<>>
                       /\ \A g \in 1..(f - 1) : MatchesOf(text, g, 1) = <<>>,
                   1)
    ELSE DefaultRubric

\* no two items of text have the same name
DistinctItems(text) ==
    \A i, j \in 1..Len(text) :
        (text[i].type = "item" /\ text[j].type = "item" /\ text[i].name = text[j].name)
            => i = j

\* C24: with the AI unavailable, the criteria returned for a rubric text are
\* those of the first pattern family that matches any item and of no later
\* family; so for a text of items with distinct names the names returned are
\* pairwise distinct, and without a declared total max_total_score counts
\* each returned item once.
C24_FirstFamilyWins ==
    (cpc = "returned" /\ RubricAIUnavailable /\ DistinctItems(ctext.tokens)) =>
        /\ cresult.criteria = FirstYield(ctext.tokens)
        /\ \A i, j \in 1..Len(cresult.criteria) :
              cresult.criteria[i].name = cresult.criteria[j].name => i = j
        /\ DeclaredTotal(ctext.tokens, 1) < 0 =>
              cresult.max_total_score = SumMaxScore(FirstYield(ctext.tokens))


----------------------------------------------------------------------------
(* Claims about the byte counter over a sequence of calls.                 *)

\* the calls of the run are made one after the other, by one caller
Sequential == Cardinality(env.active) = 1

\* C25: over calls of query made one after the other, those that evict the
\* least recently used entry at the entry bound included, the byte counter is
\* the sum of the sizes of the entries the cache holds, and so is within the
\* byte bound.
C25_BytesAreSum ==
    Sequential =>
        /\ cacheBytes = SumSizes(cacheData)
        /\ cacheBytes <= MaxCacheBytes


----------------------------------------------------------------------------
(* Claims about the checks of the uploaded files.                          *)

\* every file has a supported suffix, a size within the limit and bytes
\* that hold a text, no two files hold the same bytes, and there are
\* between 1 and 30 work files
Acceptable(files) ==
    /\ Len(files) >= 2
    /\ Len(files) - 1 <= 30
    /\ \A i \in 1..Len(files) :
          /\ files[i].ext \in {".txt", ".docx", ".pdf"}
          /\ files[i].size > 0
          /\ files[i].size <= 50 * 1024 * 1024
          /\ files[i].data.kind = "text"
    /\ \A i, j \in 1..Len(files) : files[i].data = files[j].data => i = j

\* C26: an upload of non-empty files of supported formats within the size
\* limit, no two with the same content, passes the checks; the text
\* extracted from each file during the checks is the full text of the file;
\* and the pipeline later extracts the same full text from each file.
C26_ReadOrder ==
    Acceptable(upload.files) =>
        /\ upload.pc # "failed"
        /\ \A i \in 1..Len(upload.seen) :
              upload.seen[i] = [blank |-> FALSE, id |-> upload.files[i].data.id]
        /\ \A i \in 1..Len(upload.later) :
              /\ upload.later[i].status = "returned"
              /\ upload.later[i].text = [blank |-> FALSE, id |-> upload.files[i].data.id]

====
